---- MODULE Spec2Model ----
(***************************************************************************)
(* Model of dsutil.docker.builder: DockerImageBuilder builds a dependency  *)
(* graph of Docker images from (branch, git_url) pairs (build_graph) and   *)
(* then builds, tags and pushes the images in dependency order             *)
(* (build_images).                                                         *)
(***************************************************************************)
EXTENDS Integers, Sequences, FiniteSets, TLC

\* ------------------------------------------------------------------ universe
\* Git repositories (URLs), listed so that a repository's Dockerfile can only
\* name an earlier one in its "# GIT:" line (the lineage is acyclic).
UrlSeq == <<"R", "A", "B", "C", "D">>
UrlIdx(u) == CHOOSE i \in DOMAIN UrlSeq : UrlSeq[i] = u

\* Number of repositories in the runs that build images.
MaxRepos == 3
\* Number of repositories in the runs that only construct the graph.
GraphRepos == 2

Repos(n) == {UrlSeq[i] : i \in 1..n}
Urls == Repos(IF MaxRepos > GraphRepos THEN MaxRepos ELSE GraphRepos)

\* Branch names, in the order used to name content classes canonically.
BranchSeq == <<"dev", "master", "v1", "main">>
Branches == {BranchSeq[i] : i \in DOMAIN BranchSeq}
FirstBranches(n) == {BranchSeq[i] : i \in 1..n}

\* Number of branches in the runs that build one repository's branches.
TagBranches == 2
BranchIdx(b) == CHOOSE i \in DOMAIN BranchSeq : BranchSeq[i] = b

NoUrl == ""

\* In place of the "# GIT:" line of a Dockerfile that lacks "# NAME:" or
\* "FROM ": _parse_dockerfile raises LookupError for it.
BadRecipe == "<no NAME or FROM>"

VARIABLES
    cfgKeys,      \* the branches that are keys of branch_urls
    cfgUrls,      \* the urls that occur in the lists of branch_urls
    content,      \* content[u][b]: class of the tree of repo u at branch b
    gitBase,      \* gitBase[u][c]: "# GIT:" line of u's Dockerfile at content c
    nodes,        \* self._graph.nodes
    edges,        \* self._graph.edges, in insertion order
    repo_nodes,   \* self._repo_nodes: git_url -> list of Node
    roots,        \* self._roots
    identical,    \* node attribute "identical_branches", as <<node, branch>> pairs
    pc,           \* position in build_graph / build_images
    branch,       \* branch of the branch_urls item being processed
    doneBranches, \* keys of branch_urls already processed
    deps,         \* the deque returned by get_deps, not yet consumed
    node_prev,    \* local node_prev of _build_graph_branch
    listed,       \* urls of the current branch's list processed so far
    again,        \* the item being processed was processed before
    added,        \* the nodes _add_root_node / _add_edge was called for
    lastCase,     \* which path the last _add_root_node / _add_edge call took
    exc,          \* the exception that ended the run ("" while none)
    graph_exc,    \* the exception that left build_graph ("" while none)
    builder,      \* self._builder
    push,         \* argument push of build_images
    tag_build,    \* argument tag_build of build_images
    rootsLeft,    \* roots that "for node in self._roots" has not reached
    stack,        \* the active calls of _build_images_graph
    attr,         \* build attributes of the graph's nodes
    failures,     \* self.failures
    calls,        \* calls[n]: how often DockerImage.build was invoked for n
    retval,       \* what build_images returned ("" while it has not)
    remove,       \* argument remove of build_images
    removed,      \* removed[n]: the tags images.remove was called with for n
    fn,           \* docker.py: the function called ("" while none)
    retry,        \* its argument retry
    cmdFails,     \* the first cmdFails runs of the docker command exit non-zero
    rpc,          \* position in the function
    iter,         \* iterations of "for _ in range(retry)" begun
    invocations,  \* runs of the docker command so far
    exitOk,       \* the last run of the docker command exited with 0
    sleeps,       \* calls of time.sleep so far
    raised        \* the exception that left the function ("" while none)

gvars == <<nodes, edges, repo_nodes, roots, identical>>
world == <<cfgKeys, cfgUrls, content, gitBase, builder>>
cvars == <<pc, branch, doneBranches, deps, node_prev, listed, again, added,
           lastCase, graph_exc>>
bvars == <<push, tag_build, rootsLeft, stack, attr, failures, calls, retval,
           remove, removed>>
vars == <<cfgKeys, cfgUrls, content, gitBase, builder, nodes, edges,
          repo_nodes, roots, identical, pc, branch, doneBranches, deps,
          node_prev, listed, again, added, lastCase, exc, graph_exc, push,
          tag_build, rootsLeft, stack, attr, failures, calls, retval, remove,
          removed, fn, retry, cmdFails, rpc, iter, invocations, exitOk,
          sleeps, raised>>
rvars == <<fn, retry, cmdFails, rpc, iter, invocations, exitOk, sleeps, raised>>

\* ------------------------------------------------------------------ values
\* Node is a frozen dataclass (git_url, branch); get_deps looks the graph up
\* with a plain tuple (git_url, branch).  cls records the Python class.
Node(u, b) == [cls |-> "Node", git_url |-> u, branch |-> b]
Tuple2(u, b) == [cls |-> "tuple", git_url |-> u, branch |-> b]
NoNode == [cls |-> "NoneType", git_url |-> NoUrl, branch |-> ""]
AllNodes == {Node(u, b) : u \in Urls, b \in Branches}

\* The __eq__ that @dataclass generates: equal fields AND the same class.
DataclassEq(x, y) ==
    x.cls = y.cls /\ x.git_url = y.git_url /\ x.branch = y.branch

\* key in self._graph.nodes (dict lookup: equal hash, then ==).
Contains(view, key) == \E n \in view : DataclassEq(key, n)

\* ------------------------------------------------------------------ world
\* content classes are numbered canonically: the first branch has class 1 and
\* each later branch has an earlier class or the next unused one.
CanonicalContent(f) ==
    \A i \in DOMAIN BranchSeq :
        LET earlier == {f[BranchSeq[j]] : j \in 1..(i - 1)}
        IN  f[BranchSeq[i]] \in earlier \cup {Cardinality(earlier) + 1}

ContentIds == 1..Len(BranchSeq)

\* DockerImage._git_url_base after _parse_dockerfile ("" when no "# GIT:").
GitUrlBase(u, b) == gitBase[u][content[u][b]]

\* DockerImage.is_root
IsRoot(u, b) == GitUrlBase(u, b) = NoUrl

\* _compare_git_branches: same name, or an empty git diff.
CompareGitBranches(u, b1, b2) ==
    \/ b1 = b2
    \/ content[u][b1] = content[u][b2]

\* ------------------------------------------------------------------ lineage
\* DockerImage.get_deps: walk "# GIT:" upwards, same branch, until the base is
\* in repo_branch (the graph's node view) or the image has no base.  When the
\* walk comes back to a repository it has passed, the while loop never ends:
\* the result is then Diverges.
Diverges == <<>>

\* clone_repo ends in _parse_dockerfile, which raises LookupError.
ParseRaises(u, b) == GitUrlBase(u, b) = BadRecipe

\* The result of get_deps when clone_repo raised for an image of the walk.
ParseFails == <<[cls |-> "LookupError", git_url |-> NoUrl, branch |-> ""]>>

RECURSIVE WalkDeps(_, _)
WalkDeps(d, b) ==
    LET base == GitUrlBase(Head(d).git_url, b)
    IN  IF Contains(nodes, Tuple2(base, b)) THEN d
        ELSE IF base = NoUrl THEN d
        ELSE IF ParseRaises(base, b) THEN ParseFails
        ELSE IF \E i \in DOMAIN d : d[i].git_url = base THEN Diverges
        ELSE WalkDeps(<<Node(base, b)>> \o d, b)

\* Faulty variant of GetDeps: the bases are appended on the right of the deque.
GetDepsAppended(u, b) ==
    IF ParseRaises(u, b) THEN ParseFails
    ELSE LET w == WalkDeps(<<Node(u, b)>>, b)
         IN  [i \in 1..Len(w) |-> w[Len(w) + 1 - i]]

GetDeps(u, b) ==
    IF ParseRaises(u, b) THEN ParseFails ELSE WalkDeps(<<Node(u, b)>>, b)

\* DockerImage.base_node
BaseNode(n) == Node(GitUrlBase(n.git_url, n.branch), n.branch)

\* ------------------------------------------------------------------ graph
SetMin(S) == CHOOSE x \in S : \A y \in S : x <= y

\* self._repo_nodes.get(url, [])
RepoNodes(u) == IF u \in DOMAIN repo_nodes THEN repo_nodes[u] ELSE <<>>

\* Faulty variant of FindIdenticalNode: matches on the branch name only.
FindSameBranchNode(node) ==
    LET ns == RepoNodes(node.git_url)
        hits == {i \in DOMAIN ns : ns[i].branch = node.branch}
    IN  IF hits = {} THEN NoNode ELSE ns[SetMin(hits)]

\* _find_identical_node: the first node recorded for the repository whose
\* branch is identical to the given node's branch.
FindIdenticalNode(node) ==
    LET ns == RepoNodes(node.git_url)
        hits == {i \in DOMAIN ns :
                    CompareGitBranches(node.git_url, ns[i].branch, node.branch)}
    IN  IF hits = {} THEN NoNode ELSE ns[SetMin(hits)]

\* The sources of the edges of es into n, in insertion order.
PredecessorsIn(es, n) ==
    LET idx == {i \in DOMAIN es : es[i][2] = n}
    IN  [k \in 1..Cardinality(idx) |->
            es[CHOOSE i \in idx : Cardinality({j \in idx : j <= i}) = k][1]]

\* self._graph.predecessors(n), in insertion order
Predecessors(n) == PredecessorsIn(edges, n)

\* Faulty variant of Successors: the neighbours in either direction.
Neighbors(n) ==
    LET idx == {i \in DOMAIN edges : edges[i][1] = n \/ edges[i][2] = n}
    IN  [k \in 1..Cardinality(idx) |->
            LET e == edges[CHOOSE i \in idx :
                               Cardinality({j \in idx : j <= i}) = k]
            IN  IF e[1] = n THEN e[2] ELSE e[1]]

\* self._graph.successors(n), in insertion order
Successors(n) ==
    LET idx == {i \in DOMAIN edges : edges[i][1] = n}
    IN  [k \in 1..Cardinality(idx) |->
            edges[CHOOSE i \in idx : Cardinality({j \in idx : j <= i}) = k][2]]

EdgeSet == {edges[i] : i \in DOMAIN edges}

\* _get_identical_branches(node), read-only use
IdenticalBranches(n) == {b \in Branches : <<n, b>> \in identical}

\* Faulty variant of AddIdenticalBranch: the node's own branch is recorded too.
AddIdenticalBranchNoCheck(node, b) == identical \cup {<<node, b>>}

\* _add_identical_branch
AddIdenticalBranch(node, b) ==
    IF node.branch = b THEN identical ELSE identical \cup {<<node, b>>}

\* Faulty variant of GraphAddEdge: the graph is undirected (nx.Graph), an edge
\* is seen from both of its ends.
GraphAddEdgeUndirected(n1, n2) ==
    /\ nodes' = nodes \cup {n1, n2}
    /\ edges' = IF <<n1, n2>> \in {edges[i] : i \in DOMAIN edges} THEN edges
                ELSE edges \o <<(<<n1, n2>>), (<<n2, n1>>)>>

\* networkx add_edge: adds missing endpoints, an existing edge is kept once
GraphAddEdge(n1, n2) ==
    /\ nodes' = nodes \cup {n1, n2}
    /\ edges' = IF <<n1, n2>> \in EdgeSet THEN edges
                ELSE Append(edges, <<n1, n2>>)

\* self._repo_nodes.setdefault(url, []); self._repo_nodes[url].append(node)
RepoNodesAppend(node) ==
    [u \in Urls |-> IF u = node.git_url THEN Append(repo_nodes[u], node)
                    ELSE repo_nodes[u]]

\* Faulty variant of AddRootNode: a new root is not recorded in self._roots.
AddRootNodeUnrecorded(node) ==
    LET inode == FindIdenticalNode(node)
    IN  IF inode = NoNode
        THEN /\ nodes' = nodes \cup {node}
             /\ repo_nodes' = RepoNodesAppend(node)
             /\ node_prev' = node
             /\ lastCase' = "root_new"
             /\ UNCHANGED <<roots, edges, identical, exc>>
        ELSE /\ identical' = AddIdenticalBranch(inode, node.branch)
             /\ node_prev' = inode
             /\ lastCase' = "root_reuse"
             /\ UNCHANGED <<nodes, edges, repo_nodes, roots, exc>>

\* _add_root_node, with node_prev receiving its result
AddRootNode(node) ==
    LET inode == FindIdenticalNode(node)
    IN  IF inode = NoNode
        THEN /\ nodes' = nodes \cup {node}
             /\ repo_nodes' = RepoNodesAppend(node)
             /\ roots' = roots \cup {node}
             /\ node_prev' = node
             /\ lastCase' = "root_new"
             /\ UNCHANGED <<edges, identical, exc>>
        ELSE /\ identical' = AddIdenticalBranch(inode, node.branch)
             /\ node_prev' = inode
             /\ lastCase' = "root_reuse"
             /\ UNCHANGED <<nodes, edges, repo_nodes, roots, exc>>

\* Faulty variant of AddEdge: an equivalent vertex is reused whatever its predecessor.
AddEdgeAlwaysReuse(node1, node2, assign) ==
    LET inode2 == FindIdenticalNode(node2)
    IN  IF inode2 = NoNode
        THEN /\ GraphAddEdge(node1, node2)
             /\ repo_nodes' = RepoNodesAppend(node2)
             /\ node_prev' = (IF assign THEN node2 ELSE node1)
             /\ lastCase' = "edge_new"
             /\ UNCHANGED <<roots, identical, exc>>
        ELSE /\ identical' = AddIdenticalBranch(inode2, node2.branch)
             /\ node_prev' = (IF assign THEN inode2 ELSE node1)
             /\ lastCase' = "edge_reuse"
             /\ UNCHANGED <<nodes, edges, repo_nodes, roots, exc>>

\* Faulty variant of AddEdge: an equivalent vertex under another predecessor
\* is linked to node1 as well instead of getting a vertex of its own.
AddEdgeLinkEquivalent(node1, node2, assign) ==
    LET inode2 == FindIdenticalNode(node2)
    IN  IF inode2 = NoNode
        THEN /\ GraphAddEdge(node1, node2)
             /\ repo_nodes' = RepoNodesAppend(node2)
             /\ node_prev' = (IF assign THEN node2 ELSE node1)
             /\ lastCase' = "edge_new"
             /\ UNCHANGED <<roots, identical, exc>>
        ELSE IF Len(Predecessors(inode2)) = 0
        THEN /\ exc' = "StopIteration"
             /\ lastCase' = "edge_raise"
             /\ UNCHANGED <<nodes, edges, repo_nodes, roots, identical,
                            node_prev>>
        ELSE IF Predecessors(inode2)[1] # node1
        THEN /\ GraphAddEdge(node1, inode2)
             /\ node_prev' = (IF assign THEN inode2 ELSE node1)
             /\ lastCase' = "edge_dup"
             /\ UNCHANGED <<repo_nodes, roots, identical, exc>>
        ELSE /\ identical' = AddIdenticalBranch(inode2, node2.branch)
             /\ node_prev' = (IF assign THEN inode2 ELSE node1)
             /\ lastCase' = "edge_reuse"
             /\ UNCHANGED <<nodes, edges, repo_nodes, roots, exc>>

\* _add_edge called with node_prev = node1; assign: the caller assigns the
\* result to node_prev (line 414) or drops it (line 412)
AddEdge(node1, node2, assign) ==
    LET inode2 == FindIdenticalNode(node2)
    IN  IF inode2 = NoNode
        THEN /\ GraphAddEdge(node1, node2)
             /\ repo_nodes' = RepoNodesAppend(node2)
             /\ node_prev' = (IF assign THEN node2 ELSE node1)
             /\ lastCase' = "edge_new"
             /\ UNCHANGED <<roots, identical, exc>>
        ELSE IF Len(Predecessors(inode2)) = 0
        THEN \* next() on an empty iterator
             /\ exc' = "StopIteration"
             /\ lastCase' = "edge_raise"
             /\ UNCHANGED <<nodes, edges, repo_nodes, roots, identical, node_prev>>
        ELSE IF Predecessors(inode2)[1] # node1
        THEN /\ GraphAddEdge(node1, node2)
             /\ node_prev' = (IF assign THEN node2 ELSE node1)
             /\ lastCase' = "edge_dup"
             /\ UNCHANGED <<repo_nodes, roots, identical, exc>>
        ELSE /\ identical' = AddIdenticalBranch(inode2, node2.branch)
             /\ node_prev' = (IF assign THEN inode2 ELSE node1)
             /\ lastCase' = "edge_reuse"
             /\ UNCHANGED <<nodes, edges, repo_nodes, roots, exc>>

\* ------------------------------------------------------------------ build_graph
\* branch_urls is a dict: the urls of one branch are processed together.
MayProcess(b) == b \in cfgKeys /\ (b = branch \/ b \notin doneBranches)

\* Faulty variant of ParseFailure: the requested image is added to the graph
\* before its lineage is walked.
ParseFailureAfterAdd(u, b) ==
    /\ exc' = "LookupError"
    /\ lastCase' = "parse"
    /\ nodes' = nodes \cup {Node(u, b)}
    /\ UNCHANGED <<edges, repo_nodes, roots, identical, deps, node_prev,
                   added>>

\* LookupError leaves get_deps, _build_graph_branch and build_graph before
\* anything is added for the url.
ParseFailure(u, b) ==
    /\ exc' = "LookupError"
    /\ lastCase' = "parse"
    /\ UNCHANGED <<gvars, deps, node_prev, added>>

\* One url of _build_graph_branch, up to and including the handling of dep0.
LineageHead(b, u) ==
    /\ pc = "idle"
    /\ MayProcess(b)
    /\ u \in cfgUrls
    /\ branch' = b
    /\ doneBranches' = doneBranches \cup {b}
    /\ listed' = (IF b = branch THEN listed ELSE {}) \cup {u}
    /\ again' = (b = branch /\ u \in listed)
    /\ LET d == GetDeps(u, b)
           dep0 == Head(d)
       IN  IF d = Diverges
           THEN /\ pc' = "hang"
                /\ UNCHANGED <<gvars, deps, node_prev, added, lastCase, exc>>
           ELSE IF d = ParseFails
           THEN /\ pc' = "raised"
                /\ ParseFailure(u, b)
           ELSE
           /\ deps' = Tail(d)
           /\ added' = added \cup {dep0}
           /\ IF IsRoot(dep0.git_url, dep0.branch)
              THEN AddRootNode(dep0)
              ELSE LET prev == FindIdenticalNode(BaseNode(dep0))
                   IN  IF ~Contains(nodes, prev)
                       THEN /\ exc' = "AssertionError"
                            /\ lastCase' = "assert"
                            /\ UNCHANGED <<gvars, node_prev>>
                       ELSE \* node_prev stays prev: the result is dropped
                            AddEdge(prev, dep0, FALSE)
           /\ pc' = IF exc' # "" THEN "raised"
                    ELSE IF Tail(d) = <<>> THEN "idle" ELSE "deps"
    /\ graph_exc' = exc'
    /\ UNCHANGED <<rvars, world, bvars>>

\* One iteration of "for dep in deps: node_prev = self._add_edge(...)".
LineageStep ==
    /\ pc = "deps"
    /\ AddEdge(node_prev, Head(deps), TRUE)
    /\ deps' = Tail(deps)
    /\ added' = added \cup {Head(deps)}
    /\ pc' = IF exc' # "" THEN "raised"
             ELSE IF Tail(deps) = <<>> THEN "idle" ELSE "deps"
    /\ graph_exc' = exc'
    /\ UNCHANGED <<rvars, world, branch, doneBranches, listed, again, bvars>>

\* ------------------------------------------------------------------ images
Builders == {"Docker", "Kaniko"}

\* tag_build=None
NoneArg == "<None>"

\* A tag given as tag_build that is no branch's tag.
GivenTag == "stable"

\* retry(_push, times=3)
RetryTimes == 3

NoAttr == [set |-> FALSE, build_succeed |-> FALSE, build_err_msg |-> "",
           image_name |-> "", action_time |-> <<>>]

\* Faulty variant of BranchToTag: every branch name is used verbatim.
BranchToTagVerbatim(b) == b

\* branch_to_tag
BranchToTag(b) ==
    IF b \in {"master", "main"} THEN "latest"
    ELSE IF b = "dev" THEN "next"
    ELSE b

\* A tag as given, and tag_date(tag): the date alone for "" and "latest",
\* otherwise the tag followed by "_" and the date.
PlainTag(t) == [tag |-> t, date |-> FALSE]
TagDate(t) == [tag |-> IF t \in {"", "latest"} THEN "" ELSE t, date |-> TRUE]

\* How the build of one image can end, by builder: the Docker API reports a
\* failed build as BuildError or as a missing image (both caught by build);
\* the Kaniko executor runs under subprocess.run(check=True).
BuildOutcomes(bld) ==
    IF bld = "Docker"
    THEN {"ok", "BuildError", "ImageNotFound", "tests_failed"}
    ELSE {"ok", "CalledProcessError", "tests_failed"}

\* The outcomes of DockerImage.build that leave it by an exception.
BuildRaises(bo) == bo = "CalledProcessError"

\* The tag DockerImage.build builds with.
BuildTag(node) ==
    IF tag_build = NoneArg THEN BranchToTag(node.branch)
    ELSE IF tag_build = "" THEN "latest"
    ELSE tag_build

\* The DockerAction that DockerImage.build returns (bo is not a raise).
DockerBuild(node, bo) ==
    [succeed |-> bo = "ok",
     err_msg |-> IF bo = "BuildError" THEN "build_log"
                 ELSE IF bo = "tests_failed"
                 THEN "Built image failed to pass tests."
                 ELSE "",
     image |-> node.git_url,
     tag |-> IF bo \in {"ok", "tests_failed"} THEN BuildTag(node) ELSE "",
     action |-> "build"]

\* utils.retry(f, times): f is called until it returns, at most times times;
\* fails is the number of consecutive calls of f that would raise.
Retry(times, fails) ==
    [calls |-> IF fails >= times THEN times ELSE fails + 1,
     raised |-> fails >= times]

\* The branches of a node's "identical_branches", in the order iterated.
RECURSIVE BranchList(_, _)
BranchList(S, i) ==
    IF i > Len(BranchSeq) THEN <<>>
    ELSE (IF BranchSeq[i] \in S THEN <<BranchSeq[i]>> ELSE <<>>)
         \o BranchList(S, i + 1)

RECURSIVE BranchTags(_)
BranchTags(brs) ==
    IF brs = <<>> THEN <<>>
    ELSE <<[tag |-> PlainTag(BranchToTag(Head(brs))), action |-> "tag"],
           [tag |-> TagDate(BranchToTag(Head(brs))), action |-> "tag"]>>
         \o BranchTags(Tail(brs))

\* Faulty variant of TagImage: no tags for the identical branches.
TagImageDateOnly(node, tag) ==
    <<[tag |-> TagDate(tag), action |-> "tag"]>>

\* _tag_image: the records appended to action_time
TagImage(node, tag) ==
    <<[tag |-> TagDate(tag), action |-> "tag"]>>
    \o BranchTags(BranchList(IdenticalBranches(node), 1))

\* _push_images: "for idx in range(len(action_time))" pushes the tag of entry
\* idx and appends the push record to the same list; PushLoop is the loop
\* from entry idx to entry stop.
RECURSIVE PushLoop(_, _, _)
PushLoop(at, idx, stop) ==
    IF idx > stop THEN at
    ELSE PushLoop(Append(at, [tag |-> at[idx].tag, action |-> "push"]),
                  idx + 1, stop)

\* Faulty variant of PushStop: the loop runs over the entries it appends too.
PushStopAppended(at) == 2 * Len(at)

\* range(len(action_time)) is evaluated once, before the first push.
PushStop(at) == Len(at)

\* _push_images when every push succeeds
PushImages(at) == PushLoop(at, 1, PushStop(at))

\* Faulty variant of ReturnsAfterBuild: a failed build is tagged and pushed.
NeverReturnsAfterBuild(act) == FALSE

\* _build_image_node: "if not succeed: return"
ReturnsAfterBuild(act) == ~act.succeed

\* ------------------------------------------------------------------ build_images
Frame(n) == [node |-> n, state |-> "enter", kids |-> <<>>]
Top == stack[Len(stack)]
Pop == SubSeq(stack, 1, Len(stack) - 1)
SetTop(f) == [stack EXCEPT ![Len(stack)] = f]

\* self._graph is what a call of build_graph that raised has left.
PartialGraph == graph_exc # ""

\* build_graph: "if self._graph is not None: return".  self._graph is set
\* before the first lineage is added, so a call that follows a call that
\* raised returns at once.
BuildGraphSkipped == PartialGraph

\* build_images(tag_build=t, push=p, remove=rm): build_graph has returned
\* (or returns at once, after a call of build_images or build_graph that
\* raised in build_graph), the loop over self._roots starts.
BuildImages(p, t, rm) ==
    /\ \/ pc = "idle"
       \/ pc = "raised" /\ exc = graph_exc /\ BuildGraphSkipped
    /\ pc' = "build"
    /\ exc' = ""
    /\ push' = p
    /\ tag_build' = t
    /\ remove' = rm
    /\ rootsLeft' = roots
    \* the locals of build_graph are gone
    /\ branch' = ""
    /\ doneBranches' = {}
    /\ node_prev' = NoNode
    /\ listed' = {}
    /\ again' = FALSE
    /\ lastCase' = ""
    /\ UNCHANGED <<rvars, world, gvars, deps, added, graph_exc, stack, attr,
                   failures, calls, retval, removed>>

\* "for node in self._roots": self._roots is a set, the order is any.
VisitRoot(r) ==
    /\ pc = "build"
    /\ stack = <<>>
    /\ r \in rootsLeft
    /\ rootsLeft' = rootsLeft \ {r}
    /\ stack' = <<Frame(r)>>
    /\ UNCHANGED <<rvars, world, gvars, cvars, exc, push, tag_build, attr,
                   failures, calls, retval, remove, removed>>

\* An exception leaves _build_image_node, _build_images_graph and build_images.
Raise(e) ==
    /\ exc' = e
    /\ pc' = "raised"
    /\ stack' = <<>>

\* Faulty variant of AfterBuild: the children are visited whatever build_succeed is.
AfterBuildNoCheck(node, a) ==
    /\ failures' = IF a.build_succeed THEN failures ELSE Append(failures, node)
    /\ stack' = SetTop([node |-> node, state |-> "kids",
                        kids |-> Successors(node)])

\* _build_images_graph after _build_image_node returned: a failed node is
\* recorded and its children are skipped.
AfterBuild(node, a) ==
    IF ~a.build_succeed
    THEN /\ failures' = Append(failures, node)
         /\ stack' = Pop
    ELSE /\ failures' = failures
         /\ stack' = SetTop([node |-> node, state |-> "kids",
                             kids |-> Successors(node)])

\* _build_image_node for the node on top, and the check that follows it.
\* bo: how the build ends; tagOk: whether tagging succeeds; k, f: the k-th
\* push (none if 0) fails f times in a row, every other push succeeds.
VisitNode(bo, tagOk, k, f) ==
    /\ pc = "build"
    /\ stack # <<>>
    /\ Top.state = "enter"
    /\ LET node == Top.node
           act == DockerBuild(node, bo)
           a0 == [set |-> TRUE, build_succeed |-> act.succeed,
                  build_err_msg |-> act.err_msg, image_name |-> act.image,
                  action_time |-> <<[tag |-> PlainTag(act.tag),
                                     action |-> act.action]>>]
           at1 == a0.action_time \o TagImage(node, act.tag)
           pushing == builder = "Docker" /\ push
       IN  /\ calls' = [calls EXCEPT ![node] = @ + 1]
           /\ IF BuildRaises(bo)
              THEN /\ k = 0 /\ f = 1 /\ tagOk
                   /\ Raise(bo)
                   /\ UNCHANGED <<attr, failures>>
              ELSE IF ReturnsAfterBuild(act)
              THEN /\ k = 0 /\ f = 1 /\ tagOk
                   /\ attr' = [attr EXCEPT ![node] = a0]
                   /\ AfterBuild(node, a0)
                   /\ UNCHANGED <<exc, pc>>
              ELSE IF ~tagOk
              THEN /\ k = 0 /\ f = 1
                   /\ attr' = [attr EXCEPT ![node] = a0]
                   /\ Raise("TagError")
                   /\ UNCHANGED failures
              ELSE IF ~pushing
              THEN /\ k = 0 /\ f = 1
                   /\ attr' = [attr EXCEPT ![node] =
                                  [a0 EXCEPT !.action_time = at1]]
                   /\ AfterBuild(node, a0)
                   /\ UNCHANGED <<exc, pc>>
              ELSE /\ k <= Len(at1)
                   /\ k = 0 => f = 1
                   /\ IF k > 0 /\ Retry(RetryTimes, f).raised
                      THEN /\ attr' = [attr EXCEPT ![node] =
                                  [a0 EXCEPT !.action_time =
                                      PushLoop(at1, 1, k - 1)]]
                           /\ Raise("PushError")
                           /\ UNCHANGED failures
                      ELSE /\ attr' = [attr EXCEPT ![node] =
                                  [a0 EXCEPT !.action_time =
                                      PushImages(at1)]]
                           /\ AfterBuild(node, a0)
                           /\ UNCHANGED <<exc, pc>>
    /\ UNCHANGED <<rvars, world, gvars, branch, doneBranches, deps, node_prev,
                   listed, again, added, lastCase, graph_exc, push, tag_build,
                   rootsLeft, retval, remove, removed>>

\* "for child in children": the recursive call for the next child.
VisitChild ==
    /\ pc = "build"
    /\ stack # <<>>
    /\ Top.state = "kids"
    /\ Top.kids # <<>>
    /\ stack' = Append(SetTop([Top EXCEPT !.kids = Tail(Top.kids)]),
                       Frame(Head(Top.kids)))
    /\ UNCHANGED <<rvars, world, gvars, cvars, exc, push, tag_build, rootsLeft,
                   attr, failures, calls, retval, remove, removed>>

\* Faulty variant of RemovedActions: the push records are removed as well.
RemovedActionsAll == {"build", "tag", "push"}

\* "if action in ("build", "tag")"
RemovedActions == {"build", "tag"}

\* The tags of the entries of at up to entry stop that are removed, in order.
RECURSIVE RemoveTags(_, _)
RemoveTags(at, stop) ==
    IF stop = 0 THEN <<>>
    ELSE RemoveTags(at, stop - 1)
         \o (IF at[stop].action \in RemovedActions THEN <<at[stop].tag>>
             ELSE <<>>)

\* _build_images_graph once the children are done: it returns, after having
\* removed the images of the node if remove is set.  k: the entry of
\* action_time at which images.remove raises (none if 0).
ReturnNode(k) ==
    /\ pc = "build"
    /\ stack # <<>>
    /\ Top.state = "kids"
    /\ Top.kids = <<>>
    /\ LET node == Top.node
           at == attr[node].action_time
       IN  IF ~remove
           THEN /\ k = 0
                /\ stack' = Pop
                /\ UNCHANGED <<removed, exc, pc>>
           ELSE IF k = 0
           THEN /\ removed' = [removed EXCEPT ![node] = RemoveTags(at, Len(at))]
                /\ stack' = Pop
                /\ UNCHANGED <<exc, pc>>
           ELSE /\ k <= Len(at)
                /\ at[k].action \in RemovedActions
                /\ removed' = [removed EXCEPT ![node] = RemoveTags(at, k - 1)]
                /\ Raise("APIError")
    /\ UNCHANGED <<rvars, world, gvars, branch, doneBranches, deps, node_prev,
                   listed, again, added, lastCase, graph_exc, push, tag_build,
                   rootsLeft, attr, failures, calls, retval, remove>>

\* After the loop: raise if self.failures, else fall off the end (None).
Finish ==
    /\ pc = "build"
    /\ stack = <<>>
    /\ rootsLeft = {}
    /\ IF failures # <<>>
       THEN /\ exc' = "DockerImageBuilderError"
            /\ pc' = "raised"
            /\ retval' = retval
       ELSE /\ retval' = "None"
            /\ pc' = "done"
            /\ exc' = exc
    /\ UNCHANGED <<rvars, world, gvars, branch, doneBranches, deps, node_prev,
                   listed, again, added, lastCase, graph_exc, push, tag_build,
                   rootsLeft, stack, attr, failures, calls, remove, removed>>

\* _build_error_msg: one entry per element of self.failures
BuildErrorMsg ==
    [i \in DOMAIN failures |->
        [node |-> failures[i],
         branches |-> IdenticalBranches(failures[i]),
         err_msg |-> attr[failures[i]].build_err_msg]]

MaxTags == 2 + 2 * Len(BranchSeq)

\* ------------------------------------------------------------------ init
ContentFns(keys) ==
    {f \in [Branches -> ContentIds] :
        CanonicalContent(f) /\ \A b \in Branches \ keys : f[b] = 1}

\* The "# GIT:" lines of repository u, whose branches have the classes f: a
\* Dockerfile names a repository of the configuration or none, and classes
\* that no branch has carry no Dockerfile.  Without "cyclic" in feats a
\* Dockerfile names an earlier repository only (no lineage comes back to
\* itself); with "broken" in feats a Dockerfile may lack "# NAME:" or "FROM ".
BaseFns(u, f, urls, feats) ==
    {g \in [ContentIds ->
               {x \in urls : "cyclic" \in feats \/ UrlIdx(x) < UrlIdx(u)}
               \cup {NoUrl}
               \cup (IF "broken" \in feats THEN {BadRecipe} ELSE {})] :
        \A c \in ContentIds : c \notin {f[b] : b \in Branches} => g[c] = NoUrl}

\* The <<content, "# GIT:" lines>> a repository can have.  Repositories
\* outside the configuration are never cloned: their content is left trivial.
RepoWorlds(u, keys, urls, feats) ==
    IF u \in urls
    THEN UNION {{<<f, g>> : g \in BaseFns(u, f, urls, feats)} :
                  f \in ContentFns(keys)}
    ELSE {<<[b \in Branches |-> 1], [c \in ContentIds |-> NoUrl]>>}

RECURSIVE Worlds(_, _, _, _)
Worlds(i, keys, urls, feats) ==
    IF i = 0 THEN {<<>>}
    ELSE {Append(w, p) : w \in Worlds(i - 1, keys, urls, feats),
                         p \in RepoWorlds(UrlSeq[i], keys, urls, feats)}

TypeWorld(keys, urls, feats) ==
    \E w \in Worlds(Cardinality(Urls), keys, urls, feats) :
        /\ content = [u \in Urls |-> w[UrlIdx(u)][1]]
        /\ gitBase = [u \in Urls |-> w[UrlIdx(u)][2]]

\* The state after DockerImageBuilder.__init__, for a configuration over the
\* given branches and urls.
InitBuilder(keys, urls, builders, feats) ==
    /\ cfgKeys = keys
    /\ cfgUrls = urls
    /\ TypeWorld(keys, urls, feats)
    /\ builder \in builders
    /\ nodes = {}
    /\ edges = <<>>
    /\ repo_nodes = [u \in Urls |-> <<>>]
    /\ roots = {}
    /\ identical = {}
    /\ pc = "idle"
    /\ branch = ""
    /\ doneBranches = {}
    /\ deps = <<>>
    /\ node_prev = NoNode
    /\ listed = {}
    /\ again = FALSE
    /\ added = {}
    /\ lastCase = ""
    /\ exc = ""
    /\ graph_exc = ""
    /\ push = FALSE
    /\ tag_build = NoneArg
    /\ rootsLeft = {}
    /\ stack = <<>>
    /\ attr = [n \in AllNodes |-> NoAttr]
    /\ failures = <<>>
    /\ calls = [n \in AllNodes |-> 0]
    /\ retval = ""
    /\ remove = FALSE
    /\ removed = [n \in AllNodes |-> <<>>]

\* The builder alone: no function of docker.py is called.
InitWith(keys, urls, builders, feats) ==
    /\ fn = "" /\ retry = 0 /\ cmdFails = 0 /\ rpc = "off" /\ iter = 0
    /\ invocations = 0 /\ exitOk = FALSE /\ sleeps = 0 /\ raised = ""
    /\ InitBuilder(keys, urls, builders, feats)

\* One branch, MaxRepos repositories, either builder.
Init == InitWith({"dev"}, Repos(MaxRepos), Builders, {})

\* Two branches, GraphRepos repositories.
InitGraph == InitWith({"dev", "master"}, Repos(GraphRepos), {"Docker"}, {})

Next ==
    \/ \E b \in Branches, u \in Urls : LineageHead(b, u)
    \/ LineageStep
    \/ \E p \in BOOLEAN, t \in {NoneArg, ""} : BuildImages(p, t, FALSE)
    \/ \E r \in AllNodes : VisitRoot(r)
    \/ \E bo \in BuildOutcomes(builder), tagOk \in BOOLEAN,
          k \in 0..MaxTags, f \in 1..RetryTimes : VisitNode(bo, tagOk, k, f)
    \/ VisitChild
    \/ ReturnNode(0)
    \/ Finish

Spec == Init /\ [][Next]_vars

\* build_graph alone.
NextGraph ==
    \/ \E b \in Branches, u \in Urls : LineageHead(b, u)
    \/ LineageStep

SpecGraph == InitGraph /\ [][NextGraph]_vars

\* One root repository under TagBranches branches, either builder.
InitTags ==
    InitWith(FirstBranches(TagBranches), {UrlSeq[1]}, Builders, {})

\* With one root repository a lineage is one image and no vertex has a
\* child: the steps for further images and for children never apply.
NextTags ==
    \/ \E b \in Branches, u \in Urls : LineageHead(b, u)
    \/ \E p \in BOOLEAN, t \in {NoneArg, ""} : BuildImages(p, t, FALSE)
    \/ \E r \in AllNodes : VisitRoot(r)
    \/ \E bo \in BuildOutcomes(builder), tagOk \in BOOLEAN,
          k \in 0..MaxTags, f \in 1..RetryTimes : VisitNode(bo, tagOk, k, f)
    \/ ReturnNode(0)
    \/ Finish

SpecTags == InitTags /\ [][NextTags]_vars

\* build_graph over repositories whose "# GIT:" lines are arbitrary.
InitCyclic ==
    InitWith({"dev", "master"}, Repos(GraphRepos), {"Docker"}, {"cyclic"})

SpecCyclic == InitCyclic /\ [][NextGraph]_vars

\* build_graph over repositories some of whose Dockerfiles lack "# NAME:" or
\* "FROM ".
InitBroken ==
    InitWith({"dev", "master"}, Repos(GraphRepos), {"Docker"}, {"broken"})

SpecBroken == InitBroken /\ [][NextGraph]_vars

\* build_graph over GraphRepos repositories under three branches.
InitBranches ==
    InitWith({"dev", "master", "v1"}, Repos(GraphRepos), {"Docker"}, {})

SpecBranches == InitBranches /\ [][NextGraph]_vars

\* Two repositories under two branches, either builder; the images are built
\* without pushing, with and without remove, with the tag of each branch or
\* with a given tag.
InitMerged ==
    InitWith({"dev", "master"}, {UrlSeq[1], UrlSeq[2]}, Builders, {})

NextMerged ==
    \/ \E b \in Branches, u \in Urls : LineageHead(b, u)
    \/ LineageStep
    \/ \E t \in {NoneArg, "", GivenTag}, rm \in BOOLEAN :
          BuildImages(FALSE, t, rm)
    \/ \E r \in AllNodes : VisitRoot(r)
    \/ \E bo \in BuildOutcomes(builder), tagOk \in BOOLEAN :
          VisitNode(bo, tagOk, 0, 1)
    \/ VisitChild
    \/ \E k \in 0..MaxTags : ReturnNode(k)
    \/ Finish

SpecMerged == InitMerged /\ [][NextMerged]_vars

\* Two repositories under one branch, some of whose Dockerfiles lack
\* "# NAME:" or "FROM ": build_images may be called after build_graph has
\* raised.
InitPartial ==
    InitWith({"dev"}, {UrlSeq[1], UrlSeq[2]}, {"Docker"}, {"broken"})

SpecPartial == InitPartial /\ [][NextMerged]_vars

\* As Spec, with remove=True.
NextRemove ==
    \/ \E b \in Branches, u \in Urls : LineageHead(b, u)
    \/ LineageStep
    \/ \E p \in BOOLEAN, t \in {NoneArg, ""} : BuildImages(p, t, TRUE)
    \/ \E r \in AllNodes : VisitRoot(r)
    \/ \E bo \in BuildOutcomes(builder), tagOk \in BOOLEAN,
          k \in 0..MaxTags, f \in 1..RetryTimes : VisitNode(bo, tagOk, k, f)
    \/ VisitChild
    \/ \E k \in 0..MaxTags : ReturnNode(k)
    \/ Finish

SpecRemove == Init /\ [][NextRemove]_vars

\* ------------------------------------------------------------------ docker.py
\* push_image / pull_image of docker/docker.py and _push_images_retry of
\* docker.py: the docker command is run through run_cmd.
Functions == {"push_image", "pull_image", "_push_images_retry"}

\* Largest argument retry (and number of failing runs) considered.
MaxRetry == 4

bldvars == <<world, gvars, cvars, exc, bvars>>

\* Faulty variant of RunCmdCheck: a non-zero exit status raises.
RunCmdCheckTrue == TRUE

\* run_cmd(cmd, check: bool = False), called without the argument check.
RunCmdCheck == FALSE

\* sp.run(cmd, check=check) raises CalledProcessError for a non-zero exit
\* status when check is set, and returns otherwise.
RunCmdRaises(check, failed) == check /\ failed

\* The next run of the docker command exits with a non-zero status.
NextRunFails == invocations + 1 <= cmdFails

\* _push_image_timing / _pull_image_timing / _push_images_timing: one run of
\* the docker command.
Timing ==
    /\ invocations' = invocations + 1
    /\ exitOk' = ~NextRunFails

\* A call push_image(image, retry=n), pull_image(image, retry=n) or
\* _push_images_retry(image); the first k runs of the command will fail.
Call(f, n, k) ==
    /\ rpc = "idle"
    /\ f = "_push_images_retry" => n = 0
    /\ fn' = f
    /\ retry' = n
    /\ cmdFails' = k
    /\ rpc' = IF f = "_push_images_retry" THEN "try"
              ELSE IF n <= 1 THEN "direct"
              ELSE "loop"
    /\ UNCHANGED <<iter, invocations, exitOk, sleeps, raised, bldvars>>

\* One iteration of "for _ in range(retry): try: return ..._timing(image)
\* except sp.CalledProcessError: time.sleep(seconds)".
LoopIteration ==
    /\ rpc = "loop"
    /\ iter < retry
    /\ Timing
    /\ iter' = iter + 1
    /\ IF RunCmdRaises(RunCmdCheck, NextRunFails)
       THEN /\ sleeps' = sleeps + 1
            /\ rpc' = IF iter + 1 = retry THEN "direct" ELSE "loop"
       ELSE /\ sleeps' = sleeps
            /\ rpc' = "done"
    /\ UNCHANGED <<fn, retry, cmdFails, raised, bldvars>>

\* "return ..._timing(image)" outside a try: under "if retry <= 1", after the
\* loop, and in the except clause of _push_images_retry.
DirectAttempt ==
    /\ rpc = "direct"
    /\ Timing
    /\ IF RunCmdRaises(RunCmdCheck, NextRunFails)
       THEN /\ raised' = "CalledProcessError"
            /\ rpc' = "raised"
       ELSE /\ raised' = raised
            /\ rpc' = "done"
    /\ UNCHANGED <<fn, retry, cmdFails, iter, sleeps, bldvars>>

\* _push_images_retry: "try: return _push_images_timing(image) except
\* sp.CalledProcessError: time.sleep(60)".
TryAttempt ==
    /\ rpc = "try"
    /\ Timing
    /\ IF RunCmdRaises(RunCmdCheck, NextRunFails)
       THEN /\ sleeps' = sleeps + 1
            /\ rpc' = "direct"
       ELSE /\ sleeps' = sleeps
            /\ rpc' = "done"
    /\ UNCHANGED <<fn, retry, cmdFails, iter, raised, bldvars>>

\* No builder; one call of a function of docker.py.
InitRetry ==
    /\ InitBuilder({}, {}, {"Docker"}, {})
    /\ fn = "" /\ retry = 0 /\ cmdFails = 0 /\ rpc = "idle" /\ iter = 0
    /\ invocations = 0 /\ exitOk = FALSE /\ sleeps = 0 /\ raised = ""

NextRetry ==
    \/ \E f \in Functions, n \in 0..MaxRetry, k \in 0..(MaxRetry + 1) :
          Call(f, n, k)
    \/ LoopIteration
    \/ DirectAttempt
    \/ TryAttempt

SpecRetry == InitRetry /\ [][NextRetry]_vars

\* ------------------------------------------------------------------ helpers
\* The vertices reachable from S along edges (S included).
RECURSIVE Reach(_)
Reach(S) ==
    LET T == S \cup {e[2] : e \in {x \in EdgeSet : x[1] \in S}}
    IN  IF T = S THEN S ELSE Reach(T)

Tree(r) == Reach({r})
Descendants(n) == Reach({n}) \ {n}

\* build_images has ended, by return or by exception.
RunEnded == pc \in {"done", "raised"}

\* The build of n returned a failed DockerAction.
FailureRecorded(n) == attr[n].set /\ ~attr[n].build_succeed

\* DockerImage.build was invoked for n and did not return.
BuildRaised(n) == calls[n] > 0 /\ ~attr[n].set

BuildFailed(n) == FailureRecorded(n) \/ BuildRaised(n)

BuildSucceeded(n) == attr[n].set /\ attr[n].build_succeed

\* ------------------------------------------------------------------ claims

\* C1: for every edge parent -> child, the build of the child is not started
\* unless the build of the parent has returned with build_succeed = True.
C1_ChildAfterParentSucceeded ==
    \A e \in EdgeSet : calls[e[2]] > 0 => BuildSucceeded(e[1])

\* C1 witness: a child has been built under its successfully built parent.
C1_Witness ==
    \E e \in EdgeSet : calls[e[2]] > 0 /\ BuildSucceeded(e[1])

\* C2: once the build of a vertex has failed, no descendant of it is
\* attempted in the run and the descendants' build attributes stay unset.
C2_FailedSubtreeSkipped ==
    \A n \in nodes : BuildFailed(n) =>
        \A d \in Descendants(n) : calls[d] = 0 /\ ~attr[d].set

\* C2 witness: the run is over, a vertex with a descendant failed to build.
C2_Witness ==
    /\ RunEnded
    /\ \E n \in nodes : FailureRecorded(n) /\ Descendants(n) # {}

\* C3: when the run is over and the only failures are build failures, every
\* root subtree without a failed build is built completely and successfully
\* whenever another root subtree holds a failed build.
C3_PartialFailureIsolation ==
    (RunEnded /\ exc \notin {"TagError", "PushError"}) =>
        \A ra \in roots, rb \in roots :
            ( /\ ra # rb
              /\ \E n \in Tree(ra) : BuildFailed(n)
              /\ \A m \in Tree(rb) : ~BuildFailed(m) )
            => \A m \in Tree(rb) : BuildSucceeded(m)

\* C4: a build failure is recorded on the vertex (build_succeed = False and
\* the error text) and does not leave the traversal as an exception, with
\* the Docker builder and with the Kaniko builder.
C4_BuildFailureRecorded ==
    /\ \A n \in nodes : calls[n] > 0 => attr[n].set
    /\ exc # "CalledProcessError"

\* C5: build_images raises DockerImageBuilderError exactly when a vertex
\* failed, only after all root subtrees were traversed, and self.failures
\* lists every failed vertex exactly once.
C5_AggregateError ==
    RunEnded =>
        /\ (\E n \in nodes : BuildFailed(n)) <=> exc = "DockerImageBuilderError"
        /\ exc = "DockerImageBuilderError" =>
              /\ rootsLeft = {}
              /\ {failures[i] : i \in DOMAIN failures} =
                    {n \in nodes : BuildFailed(n)}
              /\ \A i, j \in DOMAIN failures :
                    failures[i] = failures[j] => i = j
              /\ \A i \in DOMAIN BuildErrorMsg :
                    /\ BuildErrorMsg[i].node = failures[i]
                    /\ BuildErrorMsg[i].branches = IdenticalBranches(failures[i])

\* C6: a fully successful run returns the build report to the caller.
C6_ReturnsReport ==
    pc = "done" => retval = "report"

\* C7: a tag or push failure on a vertex does not abort the traversal of the
\* other root subtrees: when the run is over, every root has been attempted.
C7_TagPushFailureContained ==
    (RunEnded /\ exc \in {"TagError", "PushError"}) =>
        /\ rootsLeft = {}
        /\ \A r \in roots : calls[r] > 0

\* C8: processing an item of branch_urls that was already processed (the
\* same url listed again under the same branch) changes neither the vertex
\* set, the edge set, the root set, the per-repository node lists nor any
\* vertex's identical-branch set.
C8_IdempotentAdd ==
    [][again' => UNCHANGED gvars]_vars

\* C8 witness: a repeated item has been processed completely, over a graph
\* with an edge.
C8_Witness ==
    again /\ pc = "idle" /\ edges # <<>>

\* The vertices of repository u whose branch has the content of branch b.
SameContentVertices(u, b) ==
    {v \in nodes : v.git_url = u /\ content[u][v.branch] = content[u][b]}

\* The branch names a vertex stands for: its own and its identical branches.
BranchesOf(v) == {v.branch} \cup IdenticalBranches(v)

\* C9 as stated: after two branches of a repository with identical content
\* were added, one vertex stands for both.
C9_MergeAnyRepository ==
    pc = "idle" =>
        \A u \in Urls, b1 \in Branches, b2 \in Branches :
            ( /\ b1 # b2
              /\ Node(u, b1) \in added /\ Node(u, b2) \in added
              /\ content[u][b1] = content[u][b2] )
            => /\ Cardinality(SameContentVertices(u, b1)) = 1
               /\ \A v \in SameContentVertices(u, b1) : {b1, b2} \subseteq BranchesOf(v)

\* C9 amended: after two branches of a root repository (no "# GIT:" line)
\* with identical content were added, exactly one vertex stands for that
\* content, and its own branch together with its identical-branch set holds
\* both branch names.
C9_MergeRootRepository ==
    pc = "idle" =>
        \A u \in Urls, b1 \in Branches, b2 \in Branches :
            ( /\ b1 # b2
              /\ Node(u, b1) \in added /\ Node(u, b2) \in added
              /\ content[u][b1] = content[u][b2]
              /\ IsRoot(u, b1) )
            => /\ Cardinality(SameContentVertices(u, b1)) = 1
               /\ \A v \in SameContentVertices(u, b1) : {b1, b2} \subseteq BranchesOf(v)

\* C9 witness: two identical branches of a root repository were added and
\* share a vertex.
C9_Witness ==
    /\ pc = "idle"
    /\ \E u \in Urls, b1 \in Branches, b2 \in Branches :
          /\ b1 # b2
          /\ Node(u, b1) \in added /\ Node(u, b2) \in added
          /\ content[u][b1] = content[u][b2]
          /\ IsRoot(u, b1)
          /\ \E v \in nodes : v.git_url = u /\ {b1, b2} \subseteq BranchesOf(v)

\* _add_edge(node_prev, Head(deps)) is about to find an identical vertex
\* whose first predecessor is not node_prev.
DupCase ==
    /\ pc = "deps"
    /\ FindIdenticalNode(Head(deps)) # NoNode
    /\ Len(Predecessors(FindIdenticalNode(Head(deps)))) > 0
    /\ Predecessors(FindIdenticalNode(Head(deps)))[1] # node_prev

\* C10: when _add_edge(prev, cur) finds an identical vertex whose predecessor
\* differs from prev, then afterwards cur is a vertex distinct from the
\* identical one, prev is its one predecessor, and the identical vertex has
\* kept its predecessors and its identical-branch set.
C10_NoMergeOnOtherPredecessor ==
    [][DupCase =>
        LET cur == Head(deps)
            prev == node_prev
            ino == FindIdenticalNode(Head(deps))
        IN  /\ cur # ino
            /\ cur \in nodes'
            /\ ino \in nodes'
            /\ PredecessorsIn(edges', cur) = <<prev>>
            /\ PredecessorsIn(edges', ino) = Predecessors(ino)
            /\ {b \in Branches : <<ino, b>> \in identical'} =
                  IdenticalBranches(ino)
            /\ node_prev' = cur
    ]_vars

\* C10 witness: _add_edge has taken the path for an identical vertex with
\* another predecessor, and the graph holds both vertices.
C10_Witness ==
    /\ lastCase = "edge_dup"
    /\ \E v \in nodes, w \in nodes :
          /\ v # w /\ v.git_url = w.git_url
          /\ content[v.git_url][v.branch] = content[w.git_url][w.branch]

\* C11: every vertex of the graph that is not a root has exactly one incoming
\* edge, after any sequence of lineage additions (and in between them).
C11_SinglePredecessor ==
    \A n \in nodes : n \notin roots => Len(Predecessors(n)) = 1

\* C11 witness: _add_edge has given an equivalent vertex a vertex of its own
\* under another predecessor, and both have their one predecessor.
C11_Witness ==
    /\ lastCase = "edge_dup"
    /\ pc = "idle"
    /\ \E v \in nodes, w \in nodes :
          /\ v # w /\ v.git_url = w.git_url
          /\ Len(Predecessors(v)) = 1 /\ Len(Predecessors(w)) = 1
          /\ Predecessors(v) # Predecessors(w)

\* C12: the dependency graph has no directed cycle: no vertex is reachable
\* from one of its own successors.
C12_Acyclic ==
    \A n \in nodes :
        n \notin Reach({e[2] : e \in {x \in EdgeSet : x[1] = n}})

\* C12 witness: over a graph with an edge, a lineage was requested whose
\* "# GIT:" lines lead back to a repository of the lineage.
C12_Witness ==
    pc = "hang" /\ edges # <<>>

\* The vertex a processed image resolved to: the vertex of its repository
\* that stands for its branch.
ResolvedTo(n) ==
    {v \in nodes : v.git_url = n.git_url /\ n.branch \in BranchesOf(v)}

\* C13: an image without a "# GIT:" line that was processed resolved to a
\* root vertex without incoming edge, the root set is exactly the set of the
\* vertices without incoming edge, and every vertex is reachable from a root.
C13_RootDetection ==
    /\ roots = {n \in nodes : Len(Predecessors(n)) = 0}
    /\ nodes = Reach(roots)
    /\ \A n \in added :
          IsRoot(n.git_url, n.branch) =>
              /\ ResolvedTo(n) # {}
              /\ \A v \in ResolvedTo(n) :
                    v \in roots /\ Len(Predecessors(v)) = 0

\* C13 witness: two roots, one of them standing for two branches, and a
\* vertex that is not a root.
C13_Witness ==
    /\ pc = "idle"
    /\ Cardinality(roots) >= 2
    /\ \E r \in roots : IdenticalBranches(r) # {}
    /\ nodes # roots

\* The vertices from which n is reachable, n excluded.
Ancestors(n) == {a \in nodes : n \in Descendants(a)}

\* build_images has ended, by return or by an exception of the traversal.
BuildRunEnded ==
    \/ pc = "done"
    \/ /\ pc = "raised"
       /\ exc \in {"CalledProcessError", "TagError", "PushError",
                   "APIError", "DockerImageBuilderError"}

\* The entries of an action_time list with one of the given actions.
Entries(at, actions) == {i \in DOMAIN at : at[i].action \in actions}

\* C14: no vertex is attempted more than once, an attempted vertex has one
\* build record, and when the run is over every vertex whose ancestors all
\* built successfully was attempted.
C14_AttemptedOnce ==
    /\ \A n \in AllNodes : calls[n] <= 1
    /\ \A n \in nodes :
          attr[n].set =>
              Cardinality(Entries(attr[n].action_time, {"build"})) = 1
    /\ BuildRunEnded =>
          \A n \in nodes :
              (\A a \in Ancestors(n) : BuildSucceeded(a)) => calls[n] = 1

\* C15: tag and push records exist only on a vertex whose build returned
\* success; a vertex whose build failed has its build record alone.
C15_TagPushAfterBuildSucceeded ==
    \A n \in nodes :
        /\ Entries(attr[n].action_time, {"tag", "push"}) # {}
              => BuildSucceeded(n)
        /\ FailureRecorded(n) => Len(attr[n].action_time) = 1
        /\ BuildRaised(n) => attr[n].action_time = <<>>

\* C15 witness: one vertex was tagged and pushed after its build, another
\* one was built but failed its tests.
C15_Witness ==
    /\ \E n \in nodes :
          /\ BuildSucceeded(n)
          /\ Entries(attr[n].action_time, {"tag"}) # {}
          /\ Entries(attr[n].action_time, {"push"}) # {}
    /\ \E n \in nodes :
          /\ FailureRecorded(n)
          /\ attr[n].build_err_msg = "Built image failed to pass tests."

\* The tag the claim gives a branch: master and main give "latest", dev
\* gives "next", any other branch gives its own name.
MappedTag(b) ==
    CASE b = "master" -> "latest"
      [] b = "main" -> "latest"
      [] b = "dev" -> "next"
      [] OTHER -> b

\* The tags that are due after a build with tag t of vertex n.
DueTags(n, t) ==
    {TagDate(t)} \cup
    UNION {{PlainTag(MappedTag(b)), TagDate(MappedTag(b))} :
              b \in IdenticalBranches(n)}

PushedAsDue(n, due) ==
    LET at == attr[n].action_time
        made == Entries(at, {"build", "tag"})
        pushed == Entries(at, {"push"})
        m == Cardinality(made)
    IN  /\ made = 1..m
        /\ Cardinality(pushed) <= m
        /\ \A j \in 1..Cardinality(pushed) : at[m + j].tag = at[j].tag
        /\ IF due
           THEN Cardinality(pushed) = m \/ exc = "PushError"
           ELSE pushed = {}

\* A successfully built vertex whose tagging has ended.
Tagged(n) == BuildSucceeded(n) /\ Len(attr[n].action_time) > 1

C18_AtMostRetryInvocations ==
    (fn \in {"push_image", "pull_image"} /\ retry >= 1)
        => invocations <= retry

\* C18 witness: push_image has returned from a call with retry >= 2 in which
\* every run of the command it made failed.
C18_Witness ==
    /\ fn = "push_image" /\ rpc = "done"
    /\ retry >= 2 /\ cmdFails > retry
    /\ invocations >= 1

\* C19: a push whose command fails once and would succeed on the second
\* run is retried: the function ends with the image pushed after two runs
\* of the command.
C19_FailedPushRetried ==
    ( /\ rpc \in {"done", "raised"}
      /\ cmdFails = 1
      /\ \/ fn = "push_image" /\ retry >= 2
         \/ fn = "_push_images_retry" )
    => exitOk /\ invocations = 2

\* C20: when a Dockerfile of the requested lineage (the leaf's or an
\* ancestor's) lacks "# NAME:" or "FROM ", the add raises LookupError and
\* leaves the vertex set, the edge set, the root set, the per-repository
\* node lists and the identical-branch sets unchanged.
C20_BrokenRecipeAbortsLineage ==
    [][ /\ (exc' = "LookupError" => pc' = "raised" /\ UNCHANGED gvars)
        /\ (pc = "idle" /\ pc' # "raised") =>
              \A n \in nodes' \ nodes : ~ParseRaises(n.git_url, n.branch)
      ]_vars

\* C20 witness: over a graph with an edge, a lineage was requested whose
\* leaf has a complete Dockerfile and whose ancestor has not, and the add
\* raised.
C20_Witness ==
    /\ exc = "LookupError"
    /\ edges # <<>>
    /\ \E u \in listed :
          /\ Node(u, branch) \notin added
          /\ ~ParseRaises(u, branch)

\* The image (u, b) can be requested now, its Dockerfile is complete and the
\* vertex of its base under branch b is in the graph.
BaseIsVertex(u, b) ==
    /\ pc = "idle" /\ MayProcess(b) /\ u \in cfgUrls
    /\ ~ParseRaises(u, b) /\ ~IsRoot(u, b)
    /\ Node(GitUrlBase(u, b), b) \in nodes

\* C22: when get_deps is called with the graph's vertex set and the base of
\* the requested image is already a vertex, the walk stops there: the chain
\* returned is the requested image alone, the base and what is above it are
\* not visited.
C22_WalkStopsAtKnownVertex ==
    \A u \in Urls, b \in Branches :
        BaseIsVertex(u, b) => GetDeps(u, b) = <<Node(u, b)>>

\* get_deps can be called now for the image (u, b), and it returns a chain.
WalkReturns(u, b) ==
    /\ pc = "idle" /\ MayProcess(b) /\ u \in cfgUrls
    /\ GetDeps(u, b) # Diverges /\ GetDeps(u, b) # ParseFails

\* C23: the chain get_deps returns ends with the requested image, every
\* element but the first names the repository of the element before it in
\* its "# GIT:" line, every element is on the requested branch, and the
\* first element is a root image or the child of a vertex of the graph.
C23_ChainOrdered ==
    \A u \in Urls, b \in Branches :
        WalkReturns(u, b) =>
            LET d == GetDeps(u, b)
            IN  /\ Len(d) >= 1
                /\ d[Len(d)] = Node(u, b)
                /\ \A i \in 2..Len(d) :
                      GitUrlBase(d[i].git_url, b) = d[i - 1].git_url
                /\ \A i \in DOMAIN d : d[i].cls = "Node" /\ d[i].branch = b
                /\ \/ IsRoot(d[1].git_url, b)
                   \/ Node(GitUrlBase(d[1].git_url, b), b) \in nodes

\* C23 witness: a chain of two images was returned and added, root first,
\* and the walk would return it again.
C23_Witness ==
    \E u \in Urls, b \in Branches :
        /\ WalkReturns(u, b)
        /\ Len(GetDeps(u, b)) >= 2
        /\ Node(u, b) \in added
        /\ <<GetDeps(u, b)[1], Node(u, b)>> \in EdgeSet

\* A step of build_images after build_graph has returned.
BuildPhaseStep == pc = "build" \/ pc' = "build"

\* C24: a step of the build phase leaves the vertex set, the edge set, the
\* root set, the per-repository node lists and every identical-branch set
\* unchanged, and the build attributes of a vertex, once written, are not
\* written again in the run (the vertex is built at most once).
C24_BuildPhaseFrame ==
    [][BuildPhaseStep =>
          /\ UNCHANGED <<nodes, edges, roots, repo_nodes, identical>>
          /\ \A n \in AllNodes :
                /\ attr[n].set => attr'[n] = attr[n]
                /\ calls'[n] <= 1
      ]_vars

\* C24 witness: build_images has returned after building every vertex of a
\* graph that has an edge and a vertex standing for two branches.
C24_Witness ==
    /\ pc = "done"
    /\ edges # <<>>
    /\ identical # {}
    /\ \A n \in nodes : attr[n].set /\ Len(attr[n].action_time) > 1

\* C25: no vertex's identical-branch set holds the vertex's own branch, after
\* any sequence of lineage additions (and in between them).
C25_OwnBranchNotIdentical ==
    \A n \in AllNodes : n.branch \notin IdenticalBranches(n)

\* C25 witness: an image was resolved to the vertex of its own repository and
\* branch (_add_identical_branch was called with the vertex's own branch),
\* in a graph where a vertex stands for a second branch.
C25_Witness ==
    /\ lastCase \in {"root_reuse", "edge_reuse"}
    /\ node_prev \in nodes
    /\ node_prev.branch = branch
    /\ identical # {}

\* The tags made for vertex p in this run, by its build or by tagging.
ProducedTags(p) ==
    {attr[p].action_time[i].tag :
        i \in Entries(attr[p].action_time, {"build", "tag"})}

\* C26: when a vertex whose Dockerfile has a "# GIT:" line is built, the tag
\* its FROM line is rewritten to (the tag it is built with: tag_build, or
\* the tag of its own branch) is one that the build or the tagging of its
\* parent vertex has made in this run.
C26_BaseTagProduced ==
    \A n \in nodes :
        (calls[n] > 0 /\ ~IsRoot(n.git_url, n.branch)) =>
            /\ Len(Predecessors(n)) = 1
            /\ BuildSucceeded(Predecessors(n)[1])
            /\ PlainTag(BuildTag(n)) \in ProducedTags(Predecessors(n)[1])

\* C26 witness: with tag_build=None a vertex was built whose parent vertex
\* is on another branch and stands for the vertex's branch as an identical
\* branch.
C26_Witness ==
    \E n \in nodes :
        /\ calls[n] > 0 /\ ~IsRoot(n.git_url, n.branch)
        /\ tag_build = NoneArg
        /\ Predecessors(n)[1].branch # n.branch
        /\ n.branch \in IdenticalBranches(Predecessors(n)[1])
        /\ BuildTag(n) # BuildTag(Predecessors(n)[1])

\* C27: the graph never holds two distinct vertices of one repository whose
\* branches have identical content and whose predecessor is the same vertex.
C27_NoTwinsUnderOnePredecessor ==
    \A v \in nodes, w \in nodes :
        ( /\ v # w
          /\ v.git_url = w.git_url
          /\ content[v.git_url][v.branch] = content[w.git_url][w.branch]
          /\ Len(Predecessors(v)) > 0 /\ Len(Predecessors(w)) > 0 )
        => Predecessors(v)[1] # Predecessors(w)[1]

\* C28: when build_graph has raised part-way through the construction of the
\* graph, no image is built from what it has left: a later call of
\* build_images on the same builder builds nothing from the partial graph.
C28_NoBuildFromPartialGraph ==
    PartialGraph => \A n \in AllNodes : calls[n] = 0

\* C29: get_deps ends for every configuration of "# GIT:" lines, on a root
\* image or on a vertex of the graph: no call of it enters a walk that comes
\* back to an image it has passed and so goes on for ever.
C29_WalkTerminates ==
    pc # "hang"

\* The images removed for n are images of n's build and tag records, each
\* removed once and in the order of the records; n's build succeeded.
RemovedAsRecorded(n) ==
    LET at == attr[n].action_time
        m == Cardinality(Entries(at, {"build", "tag"}))
    IN  /\ BuildSucceeded(n)
        /\ Len(removed[n]) <= m
        /\ \A j \in 1..Len(removed[n]) :
              at[j].action \in {"build", "tag"} /\ removed[n][j] = at[j].tag

\* No call of _build_images_graph for n or for a descendant of n is active.
SubtreeLeft(n) ==
    \A i \in DOMAIN stack : stack[i].node \notin Reach({n})

\* C30 as stated: images of a vertex are removed only after every
\* descendant of it has been attempted; images of a vertex whose build
\* failed are never removed; push records trigger no removal.
C30_RemoveAfterDescendantsAttempted ==
    \A n \in AllNodes :
        removed[n] # <<>> =>
            /\ RemovedAsRecorded(n)
            /\ SubtreeLeft(n)
            /\ \A d \in Descendants(n) : calls[d] > 0

\* C30 amended: images of a vertex are removed only after the traversal of
\* its subtree has ended, every descendant having been attempted once or
\* skipped below a descendant whose build failed; images of a vertex whose
\* build failed are never removed; push records trigger no removal.
C30_RemoveAfterSubtree ==
    \A n \in AllNodes :
        removed[n] # <<>> =>
            /\ RemovedAsRecorded(n)
            /\ SubtreeLeft(n)
            /\ \A d \in Descendants(n) :
                  \/ calls[d] = 1 /\ attr[d].set
                  \/ /\ calls[d] = 0
                     /\ \E a \in Descendants(n) \cap Ancestors(d) :
                           FailureRecorded(a)

\* C30 witness: the images of a vertex with push records were removed after
\* its child was built and its grandchild was skipped, and the images of the
\* child, whose build failed, were not removed.
C30_Witness ==
    \E n \in nodes, c \in nodes, g \in nodes :
        /\ <<n, c>> \in EdgeSet /\ <<c, g>> \in EdgeSet
        /\ Entries(attr[n].action_time, {"push"}) # {}
        /\ Len(removed[n]) =
              Cardinality(Entries(attr[n].action_time, {"build", "tag"}))
        /\ FailureRecorded(c) /\ attr[c].action_time[1].tag.tag # ""
        /\ removed[c] = <<>>
        /\ calls[g] = 0

====
